---- MODULE Spec2Model ----
(***************************************************************************)
(* Model of main() of meshTranslate.py: the offset check, the construction *)
(* of the CRS transformer, the vertex transform loop, the recentering      *)
(* loop, the image point loop, the export and the metadata file.           *)
(*                                                                         *)
(* A scene is the sequence of its Mesh Parts in the iteration order of     *)
(* scene.geometry.items(); a Mesh Part is the sequence of its vertices; a  *)
(* vertex is <<x, y, z>>. Coordinates are integers.                        *)
(***************************************************************************)
EXTENDS Integers, Sequences, FiniteSets, TLC

VARIABLES
    pc,                 \* position of main(): the statement group to run next
    error,              \* the exception that ended the run, "none" if none
    input_scene,        \* the scene as trimesh.load returned it (never written)
    in_crs, out_crs,    \* args.in_crs, args.out_crs
    offsets,            \* config.get("offset", [0, 0, 0])
    images,             \* config.get("images", [])
    geometry,           \* mesh.vertices of every part of scene.geometry
    idx,                \* index of the part the running loop visits next
    first_vertex,       \* the local first_vertex
    transformed_images, \* the local transformed_images
    exported,           \* the scenes written to output_path, in order
    metadata_writes     \* the records written to metadata_path, in order

vars == <<pc, error, input_scene, in_crs, out_crs, offsets, images, geometry,
          idx, first_vertex, transformed_images, exported, metadata_writes>>

(***************************************************************************)
(* Bounds of the model and the input sets drawn from them.                 *)
(***************************************************************************)
MaxParts == 2
MaxVerts == 2
MaxOffsetLen == 4
MaxImages == 2
MaxPointLen == 4

VertexPool == {<<1, 2, 3>>, <<4, 0, 1>>}

SeqsUpTo(S, n) == UNION {[1..k -> S] : k \in 0..n}

Parts == SeqsUpTo(VertexPool, MaxVerts)

Scenes == SeqsUpTo(Parts, MaxParts)

\* One scene with two non-empty parts, one whose only part is empty.
ScenesSmall == { << << <<1, 2, 3>>, <<4, 0, 1>> >>, << <<4, 0, 1>> >> >>,
                 << << >> >> }

\* Offsets of every length up to MaxOffsetLen; the ones of length 3 are
\* <<0, 0, 0>> (also the default of an absent field) and <<1, 2, 3>>.
Offsets == {[i \in 1..n |-> c * i] : n \in 0..MaxOffsetLen, c \in {0, 1}}

OffsetsSmall == {<<100, 0, 0>>, <<1, 2>>}

KnownCRS == {"EPSG:32631", "EPSG:2054"}

CRSPairs == {<<"EPSG:32631", "EPSG:2054">>, <<"bogus", "EPSG:2054">>,
             <<"EPSG:32631", "bogus">>}

Filenames == {"a.jpg", "b.jpg"}

\* The point fields: every length up to MaxPointLen, two values per length.
Points == {[i \in 1..n |-> c * i + 9] : n \in 0..MaxPointLen, c \in {1, 10}}

\* An Image Point is a dict: with a filename only, or a filename and a point.
ImageRecords == {[filename |-> f] : f \in Filenames}
                \cup {[filename |-> f, point |-> p] : f \in Filenames, p \in Points}

ImageLists == SeqsUpTo(ImageRecords, MaxImages)

ImageListsSmall == { << [filename |-> "a.jpg", point |-> <<10, 20, 5>>],
                        [filename |-> "b.jpg", point |-> <<1, 2>>] >> }

(***************************************************************************)
(* Python values.                                                          *)
(***************************************************************************)
\* None. first_vertex is only ever None or a list of three numbers, and is
\* only tested for truth, where None and the empty list agree.
None == << >>

Truthy(v) == v # None

(***************************************************************************)
(* The CRS transformer. pyproj is a library; the model fixes one injective  *)
(* map of the plane that is neither the identity nor additive, so that the  *)
(* order of offset, projection and recentering is observable.               *)
(***************************************************************************)
transform(x, y) == <<2 * x + y + 5, 3 * y - x + 7>>

\* Lines 118-123: the offset is added, (x, y) is projected, z is carried.
TransformVertex(v) ==
    LET x_global == v[1] + offsets[1]
        y_global == v[2] + offsets[2]
        z_global == v[3] + offsets[3]
        new_xy == transform(x_global, y_global)
    IN  <<new_xy[1], new_xy[2], z_global>>

\* Lines 115-123: new_vertices of one part, in the order of mesh.vertices.
TransformVertices(part) == [i \in 1..Len(part) |-> TransformVertex(part[i])]

RecenterVertexZ(v, anchor) == <<v[1] - anchor[1], v[2] - anchor[2], v[3] - anchor[3]>>

\* Lines 132-135: the anchor's x and y are subtracted, z is kept.
RecenterVertex(v, anchor) == <<v[1] - anchor[1], v[2] - anchor[2], v[3]>>

\* Lines 129-135: offset_vertices of one part.
RecenterVertices(part, anchor) ==
    [i \in 1..Len(part) |-> RecenterVertex(part[i], anchor)]

\* Line 144: img.get("point") found a value.
HasPoint(img) == "point" \in DOMAIN img

\* Line 145: point and len(point) == 3 (a missing point is None, falsy).
ValidPoint(img) ==
    /\ HasPoint(img)
    /\ Truthy(img.point)
    /\ Len(img.point) = 3

TransformImageWithOffset(img) ==
    IF ValidPoint(img)
    THEN LET new_p == transform(img.point[1] + offsets[1], img.point[2] + offsets[2])
         IN  [filename |-> img.filename,
              point |-> <<new_p[1], new_p[2], img.point[3] + offsets[3]>>]
    ELSE img

\* Lines 143-159: the record appended for one img.
TransformImage(img) ==
    IF ValidPoint(img)
    THEN LET px_global == img.point[1]
             py_global == img.point[2]
             pz_global == img.point[3]
             new_p == transform(px_global, py_global)
         IN  [filename |-> img.filename,
              point |-> <<new_p[1], new_p[2], pz_global>>]
    ELSE img

(***************************************************************************)
(* The run.                                                                *)
(***************************************************************************)
Start(scene, crs, offs, imgs) ==
    /\ pc = "validate"
    /\ error = "none"
    /\ input_scene = scene
    /\ geometry = scene
    /\ in_crs = crs[1]
    /\ out_crs = crs[2]
    /\ offsets = offs
    /\ images = imgs
    /\ idx = 1
    /\ first_vertex = None
    /\ transformed_images = << >>
    /\ exported = << >>
    /\ metadata_writes = << >>

\* Every scene, every offset; one list of image points.
Init ==
    \E scene \in Scenes, crs \in CRSPairs, offs \in Offsets,
       imgs \in ImageListsSmall :
        Start(scene, crs, offs, imgs)

\* Every list of image points; few scenes and offsets.
InitImages ==
    \E scene \in ScenesSmall, crs \in CRSPairs, offs \in OffsetsSmall,
       imgs \in ImageLists :
        Start(scene, crs, offs, imgs)

\* An uncaught exception ends the process.
Raise(e) ==
    /\ pc' = "aborted"
    /\ error' = e

\* Lines 97-105.
ValidateOffset ==
    /\ pc = "validate"
    /\ IF Len(offsets) # 3
       THEN Raise("ValueError")
       ELSE pc' = "transformer" /\ error' = error
    /\ UNCHANGED <<input_scene, in_crs, out_crs, offsets, images, geometry, idx,
                   first_vertex, transformed_images, exported, metadata_writes>>

MakeTransformerLazy ==
    /\ pc = "transformer"
    /\ pc' = "transform"
    /\ first_vertex' = None
    /\ idx' = 1
    /\ UNCHANGED <<error, input_scene, in_crs, out_crs, offsets, images, geometry,
                   transformed_images, exported, metadata_writes>>

\* Lines 108-111: from_crs rejects an unknown identifier when it is called.
MakeTransformer ==
    /\ pc = "transformer"
    /\ IF in_crs \notin KnownCRS \/ out_crs \notin KnownCRS
       THEN Raise("CRSError") /\ UNCHANGED <<first_vertex, idx>>
       ELSE /\ pc' = "transform"
            /\ error' = error
            /\ first_vertex' = None
            /\ idx' = 1
    /\ UNCHANGED <<input_scene, in_crs, out_crs, offsets, images, geometry,
                   transformed_images, exported, metadata_writes>>

\* Lines 114-126, one iteration: the part's vertices are replaced, then
\* new_vertices[0] is read, which raises IndexError on an empty list.
TransformPart ==
    /\ pc = "transform"
    /\ idx <= Len(geometry)
    /\ LET new_vertices == TransformVertices(geometry[idx])
       IN  /\ geometry' = [geometry EXCEPT ![idx] = new_vertices]
           /\ IF Len(new_vertices) = 0
              THEN Raise("IndexError") /\ UNCHANGED <<first_vertex, idx>>
              ELSE /\ first_vertex' = new_vertices[1]
                   /\ idx' = idx + 1
                   /\ UNCHANGED <<pc, error>>
    /\ UNCHANGED <<input_scene, in_crs, out_crs, offsets, images,
                   transformed_images, exported, metadata_writes>>

\* Lines 114, 128: the first loop is exhausted, the second starts.
EndTransformLoop ==
    /\ pc = "transform"
    /\ idx > Len(geometry)
    /\ pc' = "recenter"
    /\ idx' = 1
    /\ UNCHANGED <<error, input_scene, in_crs, out_crs, offsets, images, geometry,
                   first_vertex, transformed_images, exported, metadata_writes>>

RecenterPartOwnAnchor ==
    /\ pc = "recenter"
    /\ idx <= Len(geometry)
    /\ geometry' = [geometry EXCEPT
                      ![idx] = RecenterVertices(geometry[idx], geometry[idx][1])]
    /\ idx' = idx + 1
    /\ UNCHANGED <<pc, error, input_scene, in_crs, out_crs, offsets, images,
                   first_vertex, transformed_images, exported, metadata_writes>>

\* Lines 128-137, one iteration.
RecenterPart ==
    /\ pc = "recenter"
    /\ idx <= Len(geometry)
    /\ geometry' = [geometry EXCEPT
                      ![idx] = RecenterVertices(geometry[idx], first_vertex)]
    /\ idx' = idx + 1
    /\ UNCHANGED <<pc, error, input_scene, in_crs, out_crs, offsets, images,
                   first_vertex, transformed_images, exported, metadata_writes>>

\* Lines 128, 140: the second loop is exhausted.
EndRecenterLoop ==
    /\ pc = "recenter"
    /\ idx > Len(geometry)
    /\ pc' = "images"
    /\ UNCHANGED <<error, input_scene, in_crs, out_crs, offsets, images, geometry,
                   idx, first_vertex, transformed_images, exported, metadata_writes>>

RECURSIVE KeepValid(_)
KeepValid(imgs) ==
    IF imgs = << >> THEN << >>
    ELSE IF ValidPoint(Head(imgs))
         THEN <<TransformImage(Head(imgs))>> \o KeepValid(Tail(imgs))
         ELSE KeepValid(Tail(imgs))

TransformImagePointsDropInvalid ==
    /\ pc = "images"
    /\ transformed_images' = KeepValid(images)
    /\ pc' = "export"
    /\ UNCHANGED <<error, input_scene, in_crs, out_crs, offsets, images, geometry,
                   idx, first_vertex, exported, metadata_writes>>

\* Lines 140-159: one record is appended per img, in the order of images.
TransformImagePoints ==
    /\ pc = "images"
    /\ transformed_images' = [i \in 1..Len(images) |-> TransformImage(images[i])]
    /\ pc' = "export"
    /\ UNCHANGED <<error, input_scene, in_crs, out_crs, offsets, images, geometry,
                   idx, first_vertex, exported, metadata_writes>>

\* Lines 162-174: the scene is written to output_path.
Export ==
    /\ pc = "export"
    /\ exported' = Append(exported, geometry)
    /\ pc' = "metadata"
    /\ UNCHANGED <<error, input_scene, in_crs, out_crs, offsets, images, geometry,
                   idx, first_vertex, transformed_images, metadata_writes>>

SaveMetadataFromMesh ==
    /\ pc = "metadata"
    /\ IF Truthy(first_vertex)
       THEN metadata_writes' =
                Append(metadata_writes,
                       [offset |-> <<geometry[Len(geometry)][1][1],
                                     geometry[Len(geometry)][1][2], 0>>,
                        images |-> transformed_images])
       ELSE metadata_writes' = metadata_writes
    /\ pc' = "done"
    /\ UNCHANGED <<error, input_scene, in_crs, out_crs, offsets, images, geometry,
                   idx, first_vertex, transformed_images, exported>>

\* Lines 177-184: the record is written only if first_vertex is truthy.
SaveMetadata ==
    /\ pc = "metadata"
    /\ IF Truthy(first_vertex)
       THEN metadata_writes' =
                Append(metadata_writes,
                       [offset |-> <<first_vertex[1], first_vertex[2], 0>>,
                        images |-> transformed_images])
       ELSE metadata_writes' = metadata_writes
    /\ pc' = "done"
    /\ UNCHANGED <<error, input_scene, in_crs, out_crs, offsets, images, geometry,
                   idx, first_vertex, transformed_images, exported>>

Next ==
    \/ ValidateOffset
    \/ MakeTransformer
    \/ TransformPart
    \/ EndTransformLoop
    \/ RecenterPart
    \/ EndRecenterLoop
    \/ TransformImagePoints
    \/ Export
    \/ SaveMetadata

Spec == Init /\ [][Next]_vars

SpecImages == InitImages /\ [][Next]_vars

(***************************************************************************)
(* Vocabulary of the properties.                                           *)
(***************************************************************************)
\* Both passes over the geometry are over.
BothPassesDone == pc \in {"images", "export", "metadata", "done"}

BadConfig ==
    \/ Len(offsets) # 3
    \/ in_crs \notin KnownCRS
    \/ out_crs \notin KnownCRS

HasVertex(scene) == \E p \in 1..Len(scene) : Len(scene[p]) > 0

\* The first non-empty part among the first k parts of a scene.
FirstNonEmpty(scene, k) ==
    CHOOSE p \in 1..k :
        /\ Len(scene[p]) > 0
        /\ \A q \in 1..(p - 1) : Len(scene[q]) = 0

\* What the Vertex Transform Pass is to make of an input vertex.
GlobalXY(v) == transform(v[1] + offsets[1], v[2] + offsets[2])

ExpectedVertex(v) == <<GlobalXY(v)[1], GlobalXY(v)[2], v[3] + offsets[3]>>

\* The Anchor of the data model: the first transformed vertex of the first
\* non-empty part of the scene.
SceneAnchor ==
    ExpectedVertex(input_scene[FirstNonEmpty(input_scene, Len(input_scene))][1])

(***************************************************************************)
(* C1. While the Vertex Transform Pass runs, once a non-empty part has     *)
(* been visited the recorded anchor is the first transformed vertex of the *)
(* first non-empty part visited, whatever parts came later, and an empty   *)
(* part raises no error.                                                   *)
(***************************************************************************)
C1_AnchorIsFirstNonEmptyPart ==
    /\ error # "IndexError"
    /\ (pc = "transform" /\ HasVertex(SubSeq(geometry, 1, idx - 1)))
         => first_vertex = geometry[FirstNonEmpty(geometry, idx - 1)][1]

(***************************************************************************)
(* C2. After both passes, the first vertex of the first part is            *)
(* (0, 0, original z + dz).                                                *)
(***************************************************************************)
C2_FirstVertexAtOrigin ==
    (BothPassesDone /\ Len(input_scene) > 0 /\ Len(input_scene[1]) > 0)
        => geometry[1][1] = <<0, 0, input_scene[1][1][3] + offsets[3]>>

(***************************************************************************)
(* C3. A scene without any vertex (no parts, or only empty parts) raises   *)
(* no error in the passes, leaves the anchor undefined, is not recentered   *)
(* and gets no metadata record.                                            *)
(***************************************************************************)
C3_EmptySceneCompletes ==
    ~HasVertex(input_scene)
        => /\ error # "IndexError"
           /\ first_vertex = None
           /\ geometry = input_scene
           /\ metadata_writes = << >>

(***************************************************************************)
(* C4. With an offset that has not exactly 3 components, or a rejected CRS *)
(* identifier, the run never enters the vertex loop: no vertex is          *)
(* rewritten, no mesh is exported, no metadata record is written.          *)
(***************************************************************************)
C4_BadConfigAbortsBeforeGeometry ==
    BadConfig
        => /\ pc \in {"validate", "transformer", "aborted"}
           /\ geometry = input_scene
           /\ exported = << >>
           /\ metadata_writes = << >>

C4_Witness ==
    /\ pc = "aborted"
    /\ error = "CRSError"
    /\ Len(offsets) = 3
    /\ HasVertex(input_scene)

C6_MalformedPassThrough ==
    pc \in {"export", "metadata", "done"}
        => /\ error = "none"
           /\ Len(transformed_images) = Len(images)
           /\ \A i \in 1..Len(images) :
                 /\ transformed_images[i].filename = images[i].filename
                 /\ (~HasPoint(images[i]) \/ Len(images[i].point) # 3)
                       => transformed_images[i] = images[i]

C6_Witness ==
    /\ pc = "done"
    /\ Len(images) = 2
    /\ ~HasPoint(images[1])
    /\ HasPoint(images[2])
    /\ Len(images[2].point) = 2
    /\ images[1].filename # images[2].filename

(***************************************************************************)
(* C7. After both passes every vertex has z = original z + dz, and every   *)
(* part its original number of vertices.                                   *)
(***************************************************************************)
C7_ZOnlyOffset ==
    BothPassesDone
        => /\ Len(geometry) = Len(input_scene)
           /\ \A p \in 1..Len(input_scene) :
                 /\ Len(geometry[p]) = Len(input_scene[p])
                 /\ \A i \in 1..Len(input_scene[p]) :
                       geometry[p][i][3] = input_scene[p][i][3] + offsets[3]

C7_Witness ==
    /\ pc = "done"
    /\ offsets[3] # 0
    /\ Len(geometry) = 2
    /\ Len(geometry[2]) = 2
    /\ first_vertex[3] # 0

(***************************************************************************)
(* C8. When the run has ended with the anchor defined, exactly one         *)
(* metadata record was written; its offset is the Anchor's x and y before  *)
(* recentering and 0, its images the whole output of the image loop.       *)
(***************************************************************************)
C8_MetadataRecordsAnchor ==
    (pc \in {"done", "aborted"} /\ Truthy(first_vertex))
        => /\ Len(metadata_writes) = 1
           /\ metadata_writes[1].offset = <<SceneAnchor[1], SceneAnchor[2], 0>>
           /\ metadata_writes[1].images = transformed_images
           /\ Len(transformed_images) = Len(images)

(***************************************************************************)
(* C9. No vertex has anything subtracted while the Vertex Transform Pass    *)
(* runs; during and after the Recentering Pass every vertex already         *)
(* visited is its transformed value minus the one recorded anchor, once,    *)
(* and every vertex not yet visited is its transformed value.               *)
(***************************************************************************)
C9_RecenterAfterTransformOnce ==
    /\ pc = "transform"
         => \A p \in 1..Len(geometry) :
               geometry[p] =
                   IF p < idx
                   THEN [i \in 1..Len(input_scene[p]) |->
                            ExpectedVertex(input_scene[p][i])]
                   ELSE input_scene[p]
    /\ (pc = "recenter" \/ BothPassesDone)
         => \A p \in 1..Len(geometry) :
               geometry[p] =
                   IF pc = "recenter" /\ p >= idx
                   THEN [i \in 1..Len(input_scene[p]) |->
                            ExpectedVertex(input_scene[p][i])]
                   ELSE [i \in 1..Len(input_scene[p]) |->
                            <<ExpectedVertex(input_scene[p][i])[1] - first_vertex[1],
                              ExpectedVertex(input_scene[p][i])[2] - first_vertex[2],
                              ExpectedVertex(input_scene[p][i])[3]>>]

C9_Witness ==
    /\ pc = "recenter"
    /\ idx = 2
    /\ Len(geometry) = 2
    /\ Len(geometry[2]) > 0
    /\ input_scene[1][1] # input_scene[2][1]
    /\ offsets[1] # 0

(***************************************************************************)
(* C10. A run that ends on a scene with a vertex has written one metadata   *)
(* record, and for every vertex of the exported mesh, x + offset[0] and    *)
(* y + offset[1] are the CRS transform of (original x + dx, original y +    *)
(* dy).                                                                    *)
(***************************************************************************)
C10_GlobalRecoverable ==
    (pc = "done" /\ HasVertex(input_scene))
        => /\ Len(metadata_writes) = 1
           /\ Len(exported) = 1
           /\ \A p \in 1..Len(input_scene) :
                 \A i \in 1..Len(input_scene[p]) :
                    /\ exported[1][p][i][1] + metadata_writes[1].offset[1]
                         = GlobalXY(input_scene[p][i])[1]
                    /\ exported[1][p][i][2] + metadata_writes[1].offset[2]
                         = GlobalXY(input_scene[p][i])[2]

C10_Witness ==
    /\ pc = "done"
    /\ Len(metadata_writes) = 1
    /\ Len(input_scene) = 2
    /\ input_scene[1][1] # input_scene[2][1]
    /\ offsets[1] # 0

====
